---- MODULE Spec2Model ----
(***************************************************************************)
(* World Cup draw simulator: the draw session of logic.py (draw_next_team, *)
(* complete_draw and the four pot strategies) and the reset of app.py.     *)
(*                                                                         *)
(* Scale.  The program draws 48 teams in 4 pots of 12 into 12 groups.      *)
(* The model keeps the 4 pots but draws into the first four groups A..D    *)
(* (the smallest prefix of the labels that contains the three host groups  *)
(* A, B and D), with 4 teams per pot taken from DEFAULT_POTS in their      *)
(* source order, their names written without the flag prefix.              *)
(*                                                                         *)
(* Shuffles.  With no seed, random.shuffle is an unknown permutation:      *)
(* every shuffle is a nondeterministic choice among all orders of the      *)
(* list.  With a seed, random.Random(seed).shuffle orders every list of    *)
(* one length by the same permutation of its positions.                    *)
(***************************************************************************)
EXTENDS Integers, Sequences, FiniteSets, TLC

\* ------------------------------------------------------------------------
\* Core constants (logic.py 9-19)
\* ------------------------------------------------------------------------

GROUPS == <<"A", "B", "C", "D">>

POT_LABELS == <<1, 2, 3, 4>>

HOSTS_POT1 == << <<"Mexico", "A">>, <<"United States", "B">>, <<"Canada", "D">> >>

UEFA == "UEFA"

MAX_PER_CONFED == 1

MAX_UEFA == 2

\* ------------------------------------------------------------------------
\* Bounds of the model
\* ------------------------------------------------------------------------

\* failure lines (everything but a placement) the log may hold before the
\* model stops issuing draw commands; every failing call appends one
MaxFailures == 1

\* the same for a session with a seed set, where a shuffle has one outcome
MaxSeededFailures == 2

\* resets issued in one behaviour of SpecReset
MaxResets == 1

\* ------------------------------------------------------------------------
\* Teams and pots (app.py 137-194, parse_pot_string)
\* ------------------------------------------------------------------------

Team(n, c, p) == [name |-> n, confederation |-> c, pot |-> p]

DEFAULT_POTS ==
  [k \in 1..4 |->
     CASE k = 1 -> << Team("Mexico", "CONCACAF", 1), Team("Canada", "CONCACAF", 1),
                      Team("United States", "CONCACAF", 1), Team("Brazil", "CONMEBOL", 1) >>
       [] k = 2 -> << Team("Germany", "UEFA", 2), Team("Morocco", "CAF", 2),
                      Team("Colombia", "CONMEBOL", 2), Team("Uruguay", "CONMEBOL", 2) >>
       [] k = 3 -> << Team("Austria", "UEFA", 3), Team("Panama", "CONCACAF", 3),
                      Team("Norway", "UEFA", 3), Team("Egypt", "CAF", 3) >>
       [] k = 4 -> << Team("Ghana", "CAF", 4), Team("Cape Verde", "CAF", 4),
                      Team("Italy", "UEFA", 4), Team("Bolivia", "CONMEBOL", 4) >> ]

\* ------------------------------------------------------------------------
\* Sequence helpers (Python list operations)
\* ------------------------------------------------------------------------

Range(s) == {s[i] : i \in DOMAIN s}

\* x in list
In(x, s) == \E i \in DOMAIN s : s[i] = x

\* list.remove(x): drops the first element equal to x (x must be in the list)
Remove(s, x) ==
  LET i == CHOOSE j \in DOMAIN s : s[j] = x /\ \A h \in 1..(j - 1) : s[h] # x
  IN  SubSeq(s, 1, i - 1) \o SubSeq(s, i + 1, Len(s))

\* the permutations of 1..n, for the lengths a pot can have
IndexPermutations ==
  [n \in 0..Len(GROUPS) |->
     {p \in [1..n -> 1..n] : \A i, j \in 1..n : p[i] = p[j] => i = j}]

\* the list s in the order p of its positions
Permuted(s, p) == [i \in 1..Len(s) |-> s[p[i]]]

\* every order rnd.shuffle can leave a list in
Shuffles(s) == {Permuted(s, p) : p \in IndexPermutations[Len(s)]}

\* position of a label in GROUPS (the alphabetical order of the labels)
GroupIndex(g) == CHOOSE i \in DOMAIN GROUPS : GROUPS[i] = g

\* sorted(list of group labels)
Sorted(gs) == SelectSeq(GROUPS, LAMBDA g : In(g, gs))

\* ------------------------------------------------------------------------
\* Helpers (logic.py 25-41)
\* ------------------------------------------------------------------------

NoError == [pot |-> 0, kind |-> "absent", team |-> ""]

ErrorMsg(p, k, t) == [pot |-> p, kind |-> k, team |-> t]

LogLine(k, p, t, g) == [kind |-> k, pot |-> p, team |-> t, group |-> g]

Placed(p, t, g) == LogLine("to Group", p, t.name, g)

NoQueue == [has |-> FALSE, items |-> <<>>]

Queue(q) == [has |-> TRUE, items |-> q]

\* set_error that writes the log line and forgets the error key
set_error_log_only(st, msg) ==
  [st EXCEPT !.log = Append(@, LogLine("set_error", msg.pot, msg.team, ""))]

set_error(st, msg) ==
  [st EXCEPT !.error = msg,
             !.log = Append(@, LogLine("set_error", msg.pot, msg.team, ""))]

team_already_placed(groups, team) ==
  \E i \in DOMAIN GROUPS : \E j \in DOMAIN groups[GROUPS[i]] :
      groups[GROUPS[i]][j].name = team.name

clear_queues(st, which) ==
  [st EXCEPT !.queue = [k \in 1..4 |-> IF k \in which THEN NoQueue ELSE @[k]]]

\* ------------------------------------------------------------------------
\* Core logic (logic.py 47-121)
\* ------------------------------------------------------------------------

Count(group, confed) ==
  Cardinality({i \in DOMAIN group : group[i].confederation = confed})

\* confed_ok_to_add with <= for <
confed_ok_to_add_off_by_one(group, team) ==
  IF team.confederation = UEFA
    THEN Count(group, UEFA) <= MAX_UEFA
    ELSE Count(group, team.confederation) <= MAX_PER_CONFED

confed_ok_to_add(group, team) ==
  IF team.confederation = UEFA
    THEN Count(group, UEFA) < MAX_UEFA
    ELSE Count(group, team.confederation) < MAX_PER_CONFED

\* "" stands for Python's None
\* first_available_group_for_pot1_after_hosts that also takes a group with
\* one team in it
first_available_group_for_pot1_up_to_one(groups_filled) ==
  LET ok == SelectSeq(GROUPS, LAMBDA g : Len(groups_filled[g]) <= 1)
  IN  IF ok = <<>> THEN "" ELSE Head(ok)

first_available_group_for_pot1_after_hosts(groups_filled) ==
  LET ok == SelectSeq(GROUPS, LAMBDA g : Len(groups_filled[g]) = 0)
  IN  IF ok = <<>> THEN "" ELSE Head(ok)

\* first_available_group_with_constraints without the test of the group's size
first_available_group_any_size(groups_filled, team, target_size, allow_fallback) ==
  LET ok == SelectSeq(GROUPS, LAMBDA g : confed_ok_to_add(groups_filled[g], team))
  IN  IF ok # <<>> THEN Head(ok) ELSE ""

first_available_group_with_constraints(groups_filled, team, target_size, allow_fallback) ==
  LET ok == SelectSeq(GROUPS, LAMBDA g : /\ Len(groups_filled[g]) = target_size
                                         /\ confed_ok_to_add(groups_filled[g], team))
      fb == SelectSeq(GROUPS, LAMBDA g : /\ Len(groups_filled[g]) < target_size + 1
                                         /\ confed_ok_to_add(groups_filled[g], team))
  IN  IF ok # <<>> THEN Head(ok)
      ELSE IF allow_fallback /\ fb # <<>> THEN Head(fb)
      ELSE ""

\* candidate_groups without the confederation test
candidate_groups_any_confed(team, groups_after, required_size) ==
  SelectSeq(GROUPS, LAMBDA g : Len(groups_after[g]) = required_size)

candidate_groups(team, groups_after, required_size) ==
  SelectSeq(GROUPS, LAMBDA g : /\ Len(groups_after[g]) = required_size
                               /\ confed_ok_to_add(groups_after[g], team))

\* the dict group -> team_name, as the sequence of its items in insertion order
HasKey(m, g) == \E i \in DOMAIN m : m[i][1] = g

Get(m, g) == m[CHOOSE i \in DOMAIN m : m[i][1] = g][2]

Put(m, g, v) ==
  IF HasKey(m, g)
    THEN [i \in DOMAIN m |-> IF m[i][1] = g THEN <<g, v>> ELSE m[i]]
    ELSE Append(m, <<g, v>>)

\* candidates: the dict name -> candidate groups; a later team of the same
\* name overwrites an earlier one
Candidates(groups_after, remaining_teams, required_size) ==
  [n \in {t.name : t \in Range(remaining_teams)} |->
     LET i == CHOOSE j \in DOMAIN remaining_teams :
                /\ remaining_teams[j].name = n
                /\ \A h \in DOMAIN remaining_teams :
                      remaining_teams[h].name = n => h <= j
     IN  candidate_groups(remaining_teams[i], groups_after, required_size)]

\* try_assign, from the i-th of the team's sorted candidates on; seen and
\* match are the mutable set and dict the Python closure shares
RECURSIVE try_assign(_, _, _, _, _)
\* try_assign that never moves the team a taken group is matched to
try_assign_no_reroute(candidates, team_name, i, seen, match) ==
  LET cs == Sorted(candidates[team_name])
  IN  IF i > Len(cs)
        THEN [ok |-> FALSE, seen |-> seen, match |-> match]
        ELSE IF cs[i] \in seen \/ HasKey(match, cs[i])
          THEN try_assign(candidates, team_name, i + 1, seen \cup {cs[i]}, match)
          ELSE [ok |-> TRUE, seen |-> seen \cup {cs[i]},
                match |-> Put(match, cs[i], team_name)]

try_assign(candidates, team_name, i, seen, match) ==
  LET cs == Sorted(candidates[team_name])
  IN  IF i > Len(cs)
        THEN [ok |-> FALSE, seen |-> seen, match |-> match]
        ELSE LET g == cs[i]
             IN  IF g \in seen
                   THEN try_assign(candidates, team_name, i + 1, seen, match)
                   ELSE IF ~HasKey(match, g)
                     THEN [ok |-> TRUE, seen |-> seen \cup {g},
                           match |-> Put(match, g, team_name)]
                     ELSE LET r == try_assign(candidates, Get(match, g), 1,
                                              seen \cup {g}, match)
                          IN  IF r.ok
                                THEN [ok |-> TRUE, seen |-> r.seen,
                                      match |-> Put(r.match, g, team_name)]
                                ELSE try_assign(candidates, team_name, i + 1,
                                                r.seen, r.match)

\* sorted(remaining_teams, key = number of candidates): a stable sort
RECURSIVE OrderByOptions(_, _, _)
OrderByOptions(candidates, teams, n) ==
  IF n > Len(GROUPS)
    THEN <<>>
    ELSE SelectSeq(teams, LAMBDA t : Len(candidates[t.name]) = n)
           \o OrderByOptions(candidates, teams, n + 1)

RECURSIVE MatchAll(_, _, _, _)
MatchAll(candidates, order, i, match) ==
  IF i > Len(order)
    THEN [ok |-> TRUE, map |-> match]
    ELSE LET r == try_assign(candidates, order[i].name, 1, {}, match)
         IN  IF r.ok
               THEN MatchAll(candidates, order, i + 1, r.match)
               ELSE [ok |-> FALSE, map |-> <<>>]

\* ok = FALSE stands for None; map is the returned dict group -> team_name
perfect_matching(groups_after, remaining_teams, required_size) ==
  LET candidates == Candidates(groups_after, remaining_teams, required_size)
  IN  IF \E n \in DOMAIN candidates : Len(candidates[n]) = 0
        THEN [ok |-> FALSE, map |-> <<>>]
        ELSE MatchAll(candidates, OrderByOptions(candidates, remaining_teams, 0),
                      1, <<>>)

\* ------------------------------------------------------------------------
\* The session.  A state st of the operators below is the record of the
\* session keys the logic reads and writes: pots, groups, log, error and the
\* four p<k>_queue keys; ret is what the running call returns ("raised" when
\* it ends in a Python exception).
\* ------------------------------------------------------------------------

VARIABLES pots, groups, log, error, queue, seed, pots_baseline, ret, op, resets,
          matcher

vars == <<pots, groups, log, error, queue, seed, pots_baseline, ret, op, resets,
          matcher>>

\* state.get("seed"): None (use = FALSE), or a seed; random.Random(seed) then
\* shuffles every list of one length by the same permutation of its
\* positions, shuffle[n] for a list of n, which the seed fixes
NoSeed == [use |-> FALSE, shuffle |-> [n \in 1..Len(GROUPS) |-> [i \in 1..n |-> i]]]

\* the rotation of 1..n by r places
Rotation(n, r) == [i \in 1..n |-> ((i + r - 1) % n) + 1]

\* the seeds the model tries: those that shuffle a full pot in any of its
\* orders and a shorter list by a rotation
SeedTables ==
  {<<Rotation(1, 0), Rotation(2, r), Rotation(3, r), p4>> :
     r \in 0..1, p4 \in IndexPermutations[Len(GROUPS)]}

Seeded(table) == [use |-> TRUE, shuffle |-> table]

\* the orders random.Random(state.get("seed")).shuffle can leave the list s in
Shuffled(s) ==
  IF s = <<>> THEN {<<>>}
  ELSE IF seed.use THEN {Permuted(s, seed.shuffle[Len(s)])}
  ELSE Shuffles(s)

State == [pots |-> pots, groups |-> groups, log |-> log, error |-> error,
          queue |-> queue, ret |-> "None"]

EmptyGroups == [g \in Range(GROUPS) |-> <<>>]

\* the commit loop over mapping.items() of pot2, pot3 and draw_next_team;
\* in_draw: the team is also taken out of the pot's queue
RECURSIVE commit_mapping(_, _, _, _, _, _)
commit_mapping(st, k, mapping, remaining, i, in_draw) ==
  IF i > Len(mapping)
    THEN st
    ELSE LET gg == mapping[i][1]
             j  == CHOOSE h \in DOMAIN remaining :
                     /\ remaining[h].name = mapping[i][2]
                     /\ \A l \in DOMAIN remaining :
                           remaining[l].name = mapping[i][2] => l <= h
             tt == remaining[j]
             s1 == IF team_already_placed(st.groups, tt) THEN st
                   ELSE [st EXCEPT !.groups[gg] = Append(@, tt)]
             s2 == IF In(tt, s1.pots[k])
                     THEN [s1 EXCEPT !.pots[k] = Remove(@, tt)] ELSE s1
             s3 == IF in_draw /\ In(tt, s2.queue[k].items)
                     THEN [s2 EXCEPT !.queue[k].items = Remove(@, tt)] ELSE s2
             s4 == [s3 EXCEPT !.log = Append(@, Placed(k, tt, gg))]
         IN  commit_mapping(s4, k, mapping, remaining, i + 1, in_draw)

\* ------------------------------------------------------------------------
\* Pot steps (logic.py 127-280)
\* ------------------------------------------------------------------------

\* pot1, the fixed hosts: the i-th entry of HOSTS_POT1 and the ones after it
RECURSIVE pot1_hosts(_, _, _)
pot1_hosts(st, names, i) ==
  IF i > Len(HOSTS_POT1)
    THEN st
    ELSE LET name  == HOSTS_POT1[i][1]
             group == HOSTS_POT1[i][2]
         IN  IF In(name, [h \in DOMAIN names |-> names[h].name])
                  /\ Len(st.groups[group]) = 0
               THEN LET t  == names[CHOOSE h \in DOMAIN names :
                                 /\ names[h].name = name
                                 /\ \A l \in DOMAIN names :
                                       names[l].name = name => l <= h]
                        s1 == IF team_already_placed(st.groups, t) THEN st
                              ELSE [st EXCEPT !.groups[group] = Append(@, t)]
                        s2 == IF In(t, s1.pots[1])
                                THEN [s1 EXCEPT !.pots[1] = Remove(@, t)] ELSE s1
                        s3 == [s2 EXCEPT !.log = Append(@, Placed(1, t, group))]
                    IN  pot1_hosts(s3, names, i + 1)
               ELSE pot1_hosts(st, names, i + 1)

\* pot1, the remaining top seeds: the loop over list(pot), from its i-th team
RECURSIVE pot1_seeds(_, _, _)
pot1_seeds(st, snapshot, i) ==
  IF i > Len(snapshot)
    THEN st
    ELSE LET team == snapshot[i]
             g    == first_available_group_for_pot1_after_hosts(st.groups)
         IN  IF team_already_placed(st.groups, team)
               THEN pot1_seeds([st EXCEPT !.pots[1] = Remove(@, team)], snapshot, i + 1)
               ELSE IF g = ""
                 THEN st
                 ELSE pot1_seeds([st EXCEPT !.groups[g] = Append(@, team),
                                            !.log = Append(@, Placed(1, team, g)),
                                            !.pots[1] = Remove(@, team)],
                                 snapshot, i + 1)

\* shuffled: the order rnd.shuffle leaves the pot in, once the hosts are out
pot1(st, shuffled) ==
  LET h  == pot1_hosts(st, st.pots[1], 1)
      s1 == [h EXCEPT !.pots[1] = shuffled]
      s2 == pot1_seeds(s1, shuffled, 1)
  IN  [clear_queues(s2, {1}) EXCEPT !.ret = "True"]

\* the list pot1 shuffles
pot1_to_shuffle(st) == pot1_hosts(st, st.pots[1], 1).pots[1]

\* the loop of pot2 (k = 2) and pot3 (k = 3) with n iterations to go
RECURSIVE pot_greedy(_, _, _)
\* pot_greedy that takes the last of the groups that fit, not the first
pot_greedy_last_candidate(st, k, n) ==
  IF n = 0
    THEN [clear_queues(st, {k}) EXCEPT !.ret = "True"]
    ELSE LET team == st.pots[k][1]
             fit  == candidate_groups(team, st.groups, k - 1)
             g    == IF fit = <<>> THEN "" ELSE fit[Len(fit)]
             remaining == st.pots[k]
             mapping   == perfect_matching(st.groups, remaining, k - 1)
         IN  IF team_already_placed(st.groups, team)
               THEN pot_greedy([st EXCEPT !.pots[k] = Remove(@, team)], k, n - 1)
               ELSE IF g # ""
                 THEN pot_greedy([st EXCEPT !.groups[g] = Append(@, team),
                                            !.log = Append(@, Placed(k, team, g)),
                                            !.pots[k] = Remove(@, team)],
                                 k, n - 1)
                 ELSE IF ~mapping.ok
                   THEN [set_error(st, ErrorMsg(k, "placement failed for", team.name))
                           EXCEPT !.ret = "False"]
                   ELSE [clear_queues(commit_mapping(st, k, mapping.map, remaining, 1, FALSE),
                                      {k})
                           EXCEPT !.ret = "True"]

pot_greedy(st, k, n) ==
  IF n = 0
    THEN [clear_queues(st, {k}) EXCEPT !.ret = "True"]
    ELSE LET team == st.pots[k][1]
             g    == first_available_group_with_constraints(st.groups, team, k - 1, FALSE)
             remaining == st.pots[k]
             mapping   == perfect_matching(st.groups, remaining, k - 1)
         IN  IF team_already_placed(st.groups, team)
               THEN pot_greedy([st EXCEPT !.pots[k] = Remove(@, team)], k, n - 1)
               ELSE IF g # ""
                 THEN pot_greedy([st EXCEPT !.groups[g] = Append(@, team),
                                            !.log = Append(@, Placed(k, team, g)),
                                            !.pots[k] = Remove(@, team)],
                                 k, n - 1)
                 ELSE IF ~mapping.ok
                   THEN [set_error(st, ErrorMsg(k, "placement failed for", team.name))
                           EXCEPT !.ret = "False"]
                   ELSE [clear_queues(commit_mapping(st, k, mapping.map, remaining, 1, FALSE),
                                      {k})
                           EXCEPT !.ret = "True"]

pot2(st, shuffled) ==
  pot_greedy([st EXCEPT !.pots[2] = shuffled], 2, Len(shuffled))

pot3(st, shuffled) ==
  pot_greedy([st EXCEPT !.pots[3] = shuffled], 3, Len(shuffled))

\* pot4_possibilities without the test of the group's size
pot4_possibilities_any_size(groups_now, team) ==
  SelectSeq(GROUPS, LAMBDA g : confed_ok_to_add(groups_now[g], team))

pot4_possibilities(groups_now, team) == candidate_groups(team, groups_now, 3)

\* backtrack of pot4 and of draw_next_team; try_groups is its loop over the
\* head team's sorted candidate groups, from the i-th on
RECURSIVE backtrack(_, _, _)
RECURSIVE try_groups(_, _, _, _, _)
\* backtrack that tries the head team's first candidate group only
backtrack_first_candidate(groups_snapshot, remaining, placed_sequence) ==
  IF remaining = <<>>
    THEN [ok |-> TRUE, groups |-> groups_snapshot, seq |-> placed_sequence]
    ELSE try_groups(groups_snapshot, remaining, placed_sequence,
                    SubSeq(Sorted(pot4_possibilities(groups_snapshot, remaining[1])),
                           1, 1), 1)

backtrack(groups_snapshot, remaining, placed_sequence) ==
  IF remaining = <<>>
    THEN [ok |-> TRUE, groups |-> groups_snapshot, seq |-> placed_sequence]
    ELSE try_groups(groups_snapshot, remaining, placed_sequence,
                    Sorted(pot4_possibilities(groups_snapshot, remaining[1])), 1)

\* try_groups that puts the team at the front of the group's list
try_groups_prepends(groups_snapshot, remaining, placed_sequence, cands, i) ==
  IF i > Len(cands)
    THEN [ok |-> FALSE, groups |-> groups_snapshot, seq |-> <<>>]
    ELSE LET team == remaining[1]
             g    == cands[i]
             new_groups == [groups_snapshot EXCEPT ![g] = <<team>> \o @]
             res  == backtrack(new_groups, Tail(remaining),
                               Append(placed_sequence, <<g, team>>))
         IN  IF perfect_matching(new_groups, Tail(remaining), 3).ok /\ res.ok
               THEN res
               ELSE try_groups(groups_snapshot, remaining, placed_sequence, cands, i + 1)

try_groups(groups_snapshot, remaining, placed_sequence, cands, i) ==
  IF i > Len(cands)
    THEN [ok |-> FALSE, groups |-> groups_snapshot, seq |-> <<>>]
    ELSE LET team == remaining[1]
             g    == cands[i]
             new_groups == [groups_snapshot EXCEPT ![g] = Append(@, team)]
             res  == backtrack(new_groups, Tail(remaining),
                               Append(placed_sequence, <<g, team>>))
         IN  IF perfect_matching(new_groups, Tail(remaining), 3).ok /\ res.ok
               THEN res
               ELSE try_groups(groups_snapshot, remaining, placed_sequence, cands, i + 1)

\* pot4 that commits the groups and leaves the pot as it was
pot4_keeps_pot(st, shuffled) ==
  LET result == backtrack(st.groups, shuffled, <<>>)
  IN  IF ~result.ok
        THEN [set_error(st, ErrorMsg(4, "placement failed to find a feasible assignment", ""))
                EXCEPT !.ret = "False"]
        ELSE [clear_queues(
                [st EXCEPT !.groups = result.groups,
                           !.log = @ \o [i \in DOMAIN result.seq |->
                                           Placed(4, result.seq[i][2], result.seq[i][1])]],
                {4})
                EXCEPT !.ret = "True"]

\* shuffled: the shuffled copy of the pot
pot4(st, shuffled) ==
  LET result == backtrack(st.groups, shuffled, <<>>)
  IN  IF ~result.ok
        THEN [set_error(st, ErrorMsg(4, "placement failed to find a feasible assignment", ""))
                EXCEPT !.ret = "False"]
        ELSE [clear_queues(
                [st EXCEPT !.groups = result.groups,
                           !.log = @ \o [i \in DOMAIN result.seq |->
                                           Placed(4, result.seq[i][2], result.seq[i][1])],
                           !.pots[4] = <<>>],
                {4})
                EXCEPT !.ret = "True"]

\* ------------------------------------------------------------------------
\* Incremental drawing (logic.py 286-465)
\* ------------------------------------------------------------------------

\* NextHost that takes the last such host
NextHost_last_ready(st) ==
  LET ready == {i \in DOMAIN HOSTS_POT1 :
                  /\ \E j \in DOMAIN st.pots[1] : st.pots[1][j].name = HOSTS_POT1[i][1]
                  /\ Len(st.groups[HOSTS_POT1[i][2]]) = 0}
  IN  IF ready = {} THEN 0 ELSE CHOOSE i \in ready : \A j \in ready : i >= j

\* the first host that is still in pot 1 and whose group is empty (0: none)
NextHost(st) ==
  LET ready == {i \in DOMAIN HOSTS_POT1 :
                  /\ \E j \in DOMAIN st.pots[1] : st.pots[1][j].name = HOSTS_POT1[i][1]
                  /\ Len(st.groups[HOSTS_POT1[i][2]]) = 0}
  IN  IF ready = {} THEN 0 ELSE CHOOSE i \in ready : \A j \in ready : i <= j

\* ActivePot that takes pot 1 for drawn once no host is waiting in it
ActivePot_after_hosts(st) ==
  IF \A k \in 1..4 : st.pots[k] = <<>>
    THEN 0
    ELSE IF st.pots[1] # <<>> /\ NextHost(st) # 0
      THEN 1
      ELSE IF \A k \in 2..4 : st.pots[k] = <<>>
        THEN 1
        ELSE CHOOSE k \in 2..4 : st.pots[k] # <<>> /\ \A h \in 2..(k - 1) : st.pots[h] = <<>>

\* the pot draw_next_team works on (0: every pot is empty)
ActivePot(st) ==
  IF \A k \in 1..4 : st.pots[k] = <<>>
    THEN 0
    ELSE CHOOSE k \in 1..4 : st.pots[k] # <<>> /\ \A h \in 1..(k - 1) : st.pots[h] = <<>>

\* "p<k>_queue" not in state or not state["p<k>_queue"]
NeedsQueue(st, k) == ~st.queue[k].has \/ st.queue[k].items = <<>>

\* the list draw_next_team shuffles into a new queue (empty: it shuffles nothing)
draw_to_shuffle(st) ==
  LET k == ActivePot(st)
      host_names == {HOSTS_POT1[i][1] : i \in DOMAIN HOSTS_POT1}
  IN  IF k = 0 THEN <<>>
      ELSE IF ~NeedsQueue(st, k) THEN <<>>
      ELSE IF k = 1
        THEN IF NextHost(st) # 0 THEN <<>>
             ELSE SelectSeq(st.pots[1], LAMBDA t : t.name \notin host_names)
        ELSE st.pots[k]

\* the pot 1 branch
draw_pot1(st, shuffled) ==
  LET i  == NextHost(st)
      q0 == IF NeedsQueue(st, 1) THEN shuffled ELSE st.queue[1].items
  IN  IF i # 0
        THEN LET grp == HOSTS_POT1[i][2]
                 t   == st.pots[1][CHOOSE j \in DOMAIN st.pots[1] :
                           /\ st.pots[1][j].name = HOSTS_POT1[i][1]
                           /\ \A h \in 1..(j - 1) : st.pots[1][h].name # HOSTS_POT1[i][1]]
                 s1  == IF team_already_placed(st.groups, t) THEN st
                        ELSE [st EXCEPT !.groups[grp] = Append(@, t)]
             IN  [s1 EXCEPT !.pots[1] = Remove(@, t),
                            !.log = Append(@, Placed(1, t, grp))]
        ELSE IF q0 = <<>>
          \* pop from an empty list
          THEN [st EXCEPT !.queue[1] = Queue(<<>>), !.ret = "raised"]
          ELSE LET team == Head(q0)
                   s1   == [st EXCEPT !.queue[1] = Queue(Tail(q0))]
                   g    == first_available_group_for_pot1_after_hosts(s1.groups)
               IN  IF team_already_placed(s1.groups, team)
                     THEN IF In(team, s1.pots[1])
                            THEN [s1 EXCEPT !.pots[1] = Remove(@, team)] ELSE s1
                     ELSE IF g = ""
                       THEN [s1 EXCEPT !.log = Append(@, LogLine("No slot found", 1, "", ""))]
                       ELSE IF ~In(team, s1.pots[1])
                         \* list.remove(x): x not in list, after the append
                         THEN [s1 EXCEPT !.groups[g] = Append(@, team), !.ret = "raised"]
                         ELSE [s1 EXCEPT !.groups[g] = Append(@, team),
                                         !.pots[1] = Remove(@, team),
                                         !.log = Append(@, Placed(1, team, g))]

\* draw_pot23 that does not put the team back when it finds no slot
draw_pot23_drops_team(st, k, shuffled) ==
  LET q0   == IF NeedsQueue(st, k) THEN shuffled ELSE st.queue[k].items
      team == Head(q0)
      s1   == [st EXCEPT !.queue[k] = Queue(Tail(q0))]
      g    == first_available_group_with_constraints(s1.groups, team, k - 1, FALSE)
      remaining == <<team>> \o s1.queue[k].items
      mapping   == perfect_matching(s1.groups, remaining, k - 1)
  IN  IF team_already_placed(s1.groups, team)
        THEN IF In(team, s1.pots[k])
               THEN [s1 EXCEPT !.pots[k] = Remove(@, team)] ELSE s1
        ELSE IF g = ""
          THEN IF ~mapping.ok
                 THEN IF k = 2
                        THEN [s1 EXCEPT !.log = Append(@, LogLine("no legal slot yet", 2, team.name, ""))]
                        ELSE [s1 EXCEPT !.log = Append(@, LogLine("failed to place", 3, team.name, "")),
                                        !.error = ErrorMsg(3, "cannot place", team.name)]
                 ELSE clear_queues(commit_mapping(s1, k, mapping.map, remaining, 1, TRUE), {k})
          ELSE IF ~In(team, s1.pots[k])
            THEN [s1 EXCEPT !.groups[g] = Append(@, team), !.ret = "raised"]
            ELSE [s1 EXCEPT !.groups[g] = Append(@, team),
                            !.pots[k] = Remove(@, team),
                            !.log = Append(@, Placed(k, team, g))]

\* the pot 2 (k = 2) and pot 3 (k = 3) branches
draw_pot23(st, k, shuffled) ==
  LET q0   == IF NeedsQueue(st, k) THEN shuffled ELSE st.queue[k].items
      team == Head(q0)
      s1   == [st EXCEPT !.queue[k] = Queue(Tail(q0))]
      g    == first_available_group_with_constraints(s1.groups, team, k - 1, FALSE)
      remaining == <<team>> \o s1.queue[k].items
      mapping   == perfect_matching(s1.groups, remaining, k - 1)
  IN  IF team_already_placed(s1.groups, team)
        THEN IF In(team, s1.pots[k])
               THEN [s1 EXCEPT !.pots[k] = Remove(@, team)] ELSE s1
        ELSE IF g = ""
          THEN IF ~mapping.ok
                 THEN IF k = 2
                        THEN [s1 EXCEPT !.log = Append(@, LogLine("no legal slot yet", 2, team.name, "")),
                                        !.queue[k].items = <<team>> \o @]
                        ELSE [s1 EXCEPT !.log = Append(@, LogLine("failed to place", 3, team.name, "")),
                                        !.error = ErrorMsg(3, "cannot place", team.name),
                                        !.queue[k].items = <<team>> \o @]
                 ELSE clear_queues(commit_mapping(s1, k, mapping.map, remaining, 1, TRUE), {k})
          ELSE IF ~In(team, s1.pots[k])
            THEN [s1 EXCEPT !.groups[g] = Append(@, team), !.ret = "raised"]
            ELSE [s1 EXCEPT !.groups[g] = Append(@, team),
                            !.pots[k] = Remove(@, team),
                            !.log = Append(@, Placed(k, team, g))]

\* the commit loop of the pot 4 fallback over its sequence, from the i-th pair
RECURSIVE commit_sequence(_, _, _)
commit_sequence(st, seq, i) ==
  IF i > Len(seq)
    THEN st
    ELSE LET gg == seq[i][1]
             tt == seq[i][2]
             s1 == IF In(tt, st.pots[4])
                     THEN [st EXCEPT !.pots[4] = Remove(@, tt)] ELSE st
             s2 == IF s1.queue[4].has /\ In(tt, s1.queue[4].items)
                     THEN [s1 EXCEPT !.queue[4].items = Remove(@, tt)] ELSE s1
         IN  commit_sequence([s2 EXCEPT !.log = Append(@, Placed(4, tt, gg))], seq, i + 1)

\* draw_pot4 that takes the team's first candidate group without looking ahead
draw_pot4_no_look_ahead(st, shuffled) ==
  LET q0    == IF NeedsQueue(st, 4) THEN shuffled ELSE st.queue[4].items
      team  == Head(q0)
      s1    == [st EXCEPT !.queue[4] = Queue(Tail(q0))]
      cands == Sorted(pot4_possibilities(s1.groups, team))
      remaining == Remove(s1.pots[4], team)
      good  == cands
      try_full == <<team>> \o s1.queue[4].items
      res   == backtrack(s1.groups, try_full, <<>>)
  IN  IF team_already_placed(s1.groups, team)
        THEN IF In(team, s1.pots[4])
               THEN [s1 EXCEPT !.pots[4] = Remove(@, team)] ELSE s1
        ELSE IF cands # <<>> /\ ~In(team, s1.pots[4])
          \* remaining.remove(team): team not in the pot
          THEN [s1 EXCEPT !.ret = "raised"]
          ELSE IF cands # <<>> /\ good # <<>>
            THEN [s1 EXCEPT !.groups[Head(good)] = Append(@, team),
                            !.pots[4] = Remove(@, team),
                            !.log = Append(@, Placed(4, team, Head(good)))]
            ELSE IF ~res.ok
              THEN [s1 EXCEPT !.log = Append(@, LogLine("Failed to place feasibly", 4, team.name, "")),
                              !.error = ErrorMsg(4, "no feasible assignment after drawing", team.name),
                              !.queue[4].items = <<team>> \o @]
              ELSE clear_queues(commit_sequence([s1 EXCEPT !.groups = res.groups], res.seq, 1),
                                {4})

\* the pot 4 branch
draw_pot4(st, shuffled) ==
  LET q0    == IF NeedsQueue(st, 4) THEN shuffled ELSE st.queue[4].items
      team  == Head(q0)
      s1    == [st EXCEPT !.queue[4] = Queue(Tail(q0))]
      cands == Sorted(pot4_possibilities(s1.groups, team))
      remaining == Remove(s1.pots[4], team)
      good  == SelectSeq(cands, LAMBDA g :
                 perfect_matching([s1.groups EXCEPT ![g] = Append(@, team)], remaining, 3).ok)
      try_full == <<team>> \o s1.queue[4].items
      res   == backtrack(s1.groups, try_full, <<>>)
  IN  IF team_already_placed(s1.groups, team)
        THEN IF In(team, s1.pots[4])
               THEN [s1 EXCEPT !.pots[4] = Remove(@, team)] ELSE s1
        ELSE IF cands # <<>> /\ ~In(team, s1.pots[4])
          \* remaining.remove(team): team not in the pot
          THEN [s1 EXCEPT !.ret = "raised"]
          ELSE IF cands # <<>> /\ good # <<>>
            THEN [s1 EXCEPT !.groups[Head(good)] = Append(@, team),
                            !.pots[4] = Remove(@, team),
                            !.log = Append(@, Placed(4, team, Head(good)))]
            ELSE IF ~res.ok
              THEN [s1 EXCEPT !.log = Append(@, LogLine("Failed to place feasibly", 4, team.name, "")),
                              !.error = ErrorMsg(4, "no feasible assignment after drawing", team.name),
                              !.queue[4].items = <<team>> \o @]
              ELSE clear_queues(commit_sequence([s1 EXCEPT !.groups = res.groups], res.seq, 1),
                                {4})

\* draw_next_team that runs the greedy loop over the whole of pot 2 or pot 3
draw_next_team_whole_pot(st, shuffled) ==
  LET k == ActivePot(st)
  IN  CASE k = 0 -> st
        [] k = 1 -> draw_pot1(st, shuffled)
        [] k \in {2, 3} -> [pot_greedy(st, k, Len(st.pots[k])) EXCEPT !.ret = st.ret]
        [] k = 4 -> draw_pot4(st, shuffled)

\* shuffled: the order rnd.shuffle gives draw_to_shuffle(st)
draw_next_team(st, shuffled) ==
  LET k == ActivePot(st)
  IN  CASE k = 0 -> st
        [] k = 1 -> draw_pot1(st, shuffled)
        [] k \in {2, 3} -> draw_pot23(st, k, shuffled)
        [] k = 4 -> draw_pot4(st, shuffled)

\* ------------------------------------------------------------------------
\* complete_draw (logic.py 467-478): the set of its outcomes over the
\* shuffles of the pots it runs
\* ------------------------------------------------------------------------

RunPot1(st) ==
  IF st.pots[1] # <<>>
    THEN {pot1(st, q) : q \in Shuffled(pot1_to_shuffle(st))}
    ELSE {st}

\* RunPot2 whose shuffle does not use the seed
RunPot2_unseeded(st) ==
  IF st.pots[2] # <<>>
    THEN {pot2(st, q) : q \in Shuffles(st.pots[2])}
    ELSE {st}

RunPot2(st) ==
  IF st.pots[2] # <<>>
    THEN {pot2(st, q) : q \in Shuffled(st.pots[2])}
    ELSE {st}

\* RunPot3 without the return on a failure of pot 2
RunPot3_no_abort(st) ==
  IF st.pots[3] # <<>>
    THEN {pot3(st, q) : q \in Shuffled(st.pots[3])}
    ELSE {st}

RunPot3(st) ==
  IF st.ret = "False" THEN {st}
  ELSE IF st.pots[3] # <<>>
    THEN {pot3(st, q) : q \in Shuffled(st.pots[3])}
    ELSE {st}

\* RunPot4 that shuffles the session's pot itself, as pot2 and pot3 do
RunPot4_in_place(st) ==
  IF st.ret = "False" THEN {st}
  ELSE IF st.pots[4] # <<>>
    THEN {pot4([st EXCEPT !.pots[4] = q], q) : q \in Shuffled(st.pots[4])}
    ELSE {st}

RunPot4(st) ==
  IF st.ret = "False" THEN {st}
  ELSE IF st.pots[4] # <<>>
    THEN {pot4(st, q) : q \in Shuffled(st.pots[4])}
    ELSE {st}

complete_draw(st) ==
  LET s0 == [st EXCEPT !.error = NoError, !.ret = "None"]
  IN  {[s4 EXCEPT !.ret = IF s4.ret = "False" THEN "False" ELSE "True"] :
         s4 \in UNION {RunPot4(s3) :
                  s3 \in UNION {RunPot3(s2) :
                           s2 \in UNION {RunPot2(s1) : s1 \in RunPot1(s0)}}}}

\* ------------------------------------------------------------------------
\* reset (app.py 36-47, 226-251)
\* ------------------------------------------------------------------------

\* pots a user can paste: the defaults with one pot-1 line and one pot-2 line
\* edited
CUSTOM_POTS ==
  [DEFAULT_POTS EXCEPT ![1] = << Team("Mexico", "CONCACAF", 1), Team("Spain", "UEFA", 1),
                                 Team("United States", "CONCACAF", 1), Team("Brazil", "CONMEBOL", 1) >>,
                       ![2] = << Team("Germany", "UEFA", 2), Team("Morocco", "CAF", 2),
                                 Team("Colombia", "CONMEBOL", 2), Team("Japan", "AFC", 2) >>]

reset_state(st, new_pots) ==
  [st EXCEPT !.pots = new_pots, !.groups = EmptyGroups, !.log = <<>>]

\* the number of teams "Reset with these pots" asks of every pot: 12 for the
\* 12 groups of the program, one per group at the scale of the model
PotSize == 4

\* the text of a pot editor: its lines, each the sequence of its
\* comma-separated parts
PotTexts(some_pots) ==
  [k \in 1..4 |-> [i \in DOMAIN some_pots[k] |->
                     <<some_pots[k][i].name, some_pots[k][i].confederation>>]]

\* a line with fewer than two parts (a blank line among them) is skipped
parse_pot_string(pot_text, pot_num) ==
  LET parsed == SelectSeq(pot_text, LAMBDA line : Len(line) >= 2)
  IN  [i \in DOMAIN parsed |-> Team(parsed[i][1], parsed[i][2], pot_num)]

\* what a user may have in the four editors when pressing the button: the
\* defaults, the edited pots, the defaults with a pot-3 line that lost its
\* confederation, and the defaults with a line added to pot 4
PastedTexts ==
  { PotTexts(DEFAULT_POTS),
    PotTexts(CUSTOM_POTS),
    [PotTexts(DEFAULT_POTS) EXCEPT ![3][2] = <<"Panama">>],
    [PotTexts(DEFAULT_POTS) EXCEPT ![4] = Append(@, <<"Japan", "AFC">>)] }

\* PotsAccepted that asks for a pot not to be empty
PotsAccepted_not_empty(new_pots) ==
  \A k \in 1..4 : Len(new_pots[k]) # 0

\* the two checks of the button: the size of every pot, the keys of every
\* team
PotsAccepted(new_pots) ==
  /\ \A k \in 1..4 : Len(new_pots[k]) = PotSize
  /\ \A k \in 1..4 : \A i \in DOMAIN new_pots[k] :
        {"name", "confederation", "pot"} \subseteq DOMAIN new_pots[k][i]

\* ------------------------------------------------------------------------
\* The state machine
\* ------------------------------------------------------------------------

\* matcher: a direct call of perfect_matching, its arguments and what it
\* returned; NoCall in a session, whose calls of it are part of the draw
NoCall == [called |-> FALSE, groups_after |-> EmptyGroups,
           remaining_teams |-> <<>>, required_size |-> 0,
           out |-> [ok |-> FALSE, map |-> <<>>]]

Failures(l) == Cardinality({i \in DOMAIN l : l[i].kind # "to Group"})

Becomes(st, name) ==
  /\ pots' = st.pots
  /\ groups' = st.groups
  /\ log' = st.log
  /\ error' = st.error
  /\ queue' = st.queue
  /\ ret' = st.ret
  /\ op' = name
  /\ UNCHANGED matcher

Init ==
  /\ pots = DEFAULT_POTS
  /\ groups = EmptyGroups
  /\ log = <<>>
  /\ error = NoError
  /\ queue = [k \in 1..4 |-> NoQueue]
  /\ seed = NoSeed
  /\ pots_baseline = DEFAULT_POTS
  /\ ret = "None"
  /\ op = "init"
  /\ resets = 0
  /\ matcher = NoCall

\* the model issues draw commands while the log is within its bound
MayCall == Failures(log) < IF seed.use THEN MaxSeededFailures ELSE MaxFailures

DrawNextTeam ==
  /\ MayCall
  /\ \E q \in Shuffled(draw_to_shuffle(State)) :
        Becomes(draw_next_team(State, q), "draw_next_team")
  /\ UNCHANGED <<seed, pots_baseline, resets>>

CompleteDraw ==
  /\ MayCall
  /\ \E s \in complete_draw(State) : Becomes(s, "complete_draw")
  /\ UNCHANGED <<seed, pots_baseline, resets>>

Next == DrawNextTeam \/ CompleteDraw

Spec == Init /\ [][Next]_vars

\* repeated draw_next_team calls only
SpecDraw == Init /\ [][DrawNextTeam]_vars

\* the session with a seed set ("Use seed" ticked)
InitSeeded ==
  /\ pots = DEFAULT_POTS
  /\ groups = EmptyGroups
  /\ log = <<>>
  /\ error = NoError
  /\ queue = [k \in 1..4 |-> NoQueue]
  /\ seed \in {Seeded(t) : t \in SeedTables}
  /\ pots_baseline = DEFAULT_POTS
  /\ ret = "None"
  /\ op = "init"
  /\ resets = 0
  /\ matcher = NoCall

\* a seeded session whose draw commands go on after failures
SpecRetry == InitSeeded /\ [][Next]_vars

\* "Reset draw"
soft_reset_to_baseline ==
  /\ resets < MaxResets
  /\ Becomes(reset_state(State, pots_baseline), "reset")
  /\ resets' = resets + 1
  /\ UNCHANGED <<seed, pots_baseline>>

\* "Reset with these pots"
\* the press of the button with pot_inputs in the four editors
ResetWith(pot_inputs) ==
  LET new_pots == [k \in 1..4 |-> parse_pot_string(pot_inputs[k], k)]
  IN  IF PotsAccepted(new_pots)
        THEN /\ Becomes(reset_state(State, new_pots), "reset")
             /\ pots_baseline' = new_pots
        ELSE /\ Becomes(State, "rejected")
             /\ UNCHANGED pots_baseline

ResetWithThesePots ==
  /\ resets < MaxResets
  /\ \E pot_inputs \in PastedTexts : ResetWith(pot_inputs)
  /\ resets' = resets + 1
  /\ UNCHANGED seed

NextReset ==
  DrawNextTeam \/ CompleteDraw \/ soft_reset_to_baseline \/ ResetWithThesePots

\* a seeded session with the two reset buttons
SpecReset == InitSeeded /\ [][NextReset]_vars

\* ------------------------------------------------------------------------
\* perfect_matching called on its own
\* ------------------------------------------------------------------------

\* the longest list of teams handed to the matcher
MaxMatchTeams == 3

\* what a group holds when the matcher is called: one or two teams
MatcherFills ==
  { << Team("Mexico", "CONCACAF", 1) >>,
    << Team("Brazil", "CONMEBOL", 1) >>,
    << Team("Mexico", "CONCACAF", 1), Team("Germany", "UEFA", 2) >>,
    << Team("Brazil", "CONMEBOL", 1), Team("Morocco", "CAF", 2) >>,
    << Team("Spain", "UEFA", 1), Team("Germany", "UEFA", 2) >> }

\* the teams still to place: pot 3 and one team pot 2 has left
MatcherTeams ==
  Range(DEFAULT_POTS[3]) \cup {Team("Colombia", "CONMEBOL", 2)}

\* the lists of 1..MaxMatchTeams different teams
MatcherLists ==
  {q \in UNION {[1..n -> MatcherTeams] : n \in 1..MaxMatchTeams} :
     \A i, j \in DOMAIN q : q[i] = q[j] => i = j}

InitMatch ==
  /\ pots = DEFAULT_POTS
  /\ groups = EmptyGroups
  /\ log = <<>>
  /\ error = NoError
  /\ queue = [k \in 1..4 |-> NoQueue]
  /\ seed = NoSeed
  /\ pots_baseline = DEFAULT_POTS
  /\ ret = "None"
  /\ op = "init"
  /\ resets = 0
  /\ \E ga \in [Range(GROUPS) -> MatcherFills], q \in MatcherLists, k \in 1..2 :
        matcher = [NoCall EXCEPT !.groups_after = ga, !.remaining_teams = q,
                                 !.required_size = k]

CallMatcher ==
  /\ ~matcher.called
  /\ matcher' = [matcher EXCEPT
                   !.called = TRUE,
                   !.out = perfect_matching(matcher.groups_after,
                                            matcher.remaining_teams,
                                            matcher.required_size)]
  /\ UNCHANGED <<pots, groups, log, error, queue, seed, pots_baseline, ret, op,
                 resets>>

SpecMatch == InitMatch /\ [][CallMatcher]_vars

\* ------------------------------------------------------------------------
\* Properties
\* ------------------------------------------------------------------------

\* the teams the session was set up with, pot by pot
OriginalTeams == pots_baseline[1] \o pots_baseline[2] \o pots_baseline[3] \o pots_baseline[4]

AllPotsEmpty == \A k \in 1..4 : pots[k] = <<>>

InGroup(t, g) == Cardinality({i \in DOMAIN groups[g] : groups[g][i] = t})

\* every slot of the session, pots first and then groups
Slots ==
  pots[1] \o pots[2] \o pots[3] \o pots[4]
    \o groups["A"] \o groups["B"] \o groups["C"] \o groups["D"]

PotsInGroups ==
  UNION {{groups[g][i].pot : i \in DOMAIN groups[g]} : g \in Range(GROUPS)}

IsPrefix(a, b) == Len(a) <= Len(b) /\ SubSeq(b, 1, Len(a)) = a

Placements(l) == Cardinality({i \in DOMAIN l : l[i].kind = "to Group"})

\* C1 (exclusivity): in every state reached by draw_next_team and
\* complete_draw calls, each original team fills exactly one place, which is
\* its origin pot or a group, and the pots and groups hold nothing else.
C1_Exclusivity ==
  /\ Len(Slots) = Len(OriginalTeams)
  /\ \A i \in DOMAIN OriginalTeams :
        LET t == OriginalTeams[i]
        IN  /\ In(t, Slots)
            /\ \A k \in 1..4 : In(t, pots[k]) => k = t.pot
            /\ \A j \in DOMAIN OriginalTeams : OriginalTeams[j] = t => j = i

\* C1 witness: a draw_next_team call has just emptied the last pot
C1_Witness == AllPotsEmpty /\ op = "draw_next_team" /\ error = NoError

\* C2 (region limits): every group holds at most MAX_UEFA teams of UEFA and
\* at most MAX_PER_CONFED teams of any other confederation.
C2_RegionLimits ==
  \A g \in Range(GROUPS) : \A i \in DOMAIN groups[g] :
     LET c == groups[g][i].confederation
     IN  Count(groups[g], c) <= IF c = UEFA THEN 2 ELSE 1

\* C2 witness: a group holds two UEFA teams, the most it may, and a third
\* team beside them
C2_Witness ==
  \E g \in Range(GROUPS) : Count(groups[g], UEFA) = 2 /\ Len(groups[g]) >= 3

\* C3 (capacity): with resets too, no group ever holds more than 4 teams.
C3_Capacity == \A g \in Range(GROUPS) : Len(groups[g]) <= 4

\* C3 witness: after a reset, a group has been filled up again
C3_Witness == resets > 0 /\ \E g \in Range(GROUPS) : Len(groups[g]) = 4

\* C4 (pot order): whenever a group holds a team of pot k, the pots ranked
\* before k are empty.
C4_PotOrder ==
  \A g \in Range(GROUPS) : \A i \in DOMAIN groups[g] :
     \A h \in 1..(groups[g][i].pot - 1) : pots[h] = <<>>

\* C4 witness: pot 4 is being drawn: one of its teams is placed, one is not
C4_Witness ==
  /\ pots[4] # <<>>
  /\ \E g \in Range(GROUPS) : \E i \in DOMAIN groups[g] : groups[g][i].pot = 4

\* a draw_next_team call in this state changes nothing but the log, whatever
\* its shuffle; the call does not read the log, so every later call does the
\* same and the pots never empty
DrawIsStuck ==
  \A q \in Shuffled(draw_to_shuffle(State)) :
     LET s == draw_next_team(State, q)
     IN  s.pots = pots /\ s.groups = groups /\ s.error = error /\ s.queue = queue

\* C5 (progress), in the form a finite run refutes: repeated draw_next_team
\* calls never reach a state with no error marker set in which teams are
\* left and further calls are stuck, and once the pots are empty the log
\* holds one placement per team.
C5_Progress ==
  /\ ~(error = NoError /\ ~AllPotsEmpty /\ DrawIsStuck)
  /\ AllPotsEmpty => Placements(log) = Len(OriginalTeams)

\* C6 (reset): right after a reset the session equals a new one on the
\* baseline pots: empty groups, full pots, empty log, no error marker and no
\* pending queue.
C6_ResetRestores ==
  op = "reset" =>
    /\ groups = EmptyGroups
    /\ pots = pots_baseline
    /\ log = <<>>
    /\ error = NoError
    /\ \A k \in 1..4 : queue[k].items = <<>>

\* C7 (finality): every call leaves each group's sequence a prefix of what
\* it is afterwards, and puts no team back into a pot.
C7_Finality ==
  [][/\ \A g \in Range(GROUPS) : IsPrefix(groups[g], groups'[g])
     /\ \A k \in 1..4 : Range(pots'[k]) \subseteq Range(pots[k])]_vars

\* C7 witness: complete_draw has run the pot 4 strategy, which replaces the
\* groups as a whole, to the end
C7_Witness ==
  /\ op = "complete_draw" /\ ret = "True"
  /\ \A g \in Range(GROUPS) : Len(groups[g]) = 4

\* C8 (sticky failure): once the error marker is set, a further call places
\* no team and leaves the marker set.
C8_StickyFailure ==
  [][error # NoError => (pots' = pots /\ groups' = groups /\ error' # NoError)]_vars

FirstPotLeft ==
  IF AllPotsEmpty THEN 0
  ELSE CHOOSE k \in 1..4 : pots[k] # <<>> /\ \A h \in 1..(k - 1) : pots[h] = <<>>

\* C10 (complete_draw abort): when complete_draw returns False, the failed
\* pot k (the first pot with teams left) is the one the error names, the
\* teams of the pots before k are all in groups, and the pots after k are
\* untouched.
C10_CompleteAbort ==
  (op = "complete_draw" /\ ret = "False") =>
    LET k == FirstPotLeft
    IN  /\ k \in 2..4
        /\ error.pot = k
        /\ log # <<>> /\ log[Len(log)] = LogLine("set_error", k, error.team, "")
        /\ \A h \in 1..(k - 1) :
              /\ pots[h] = <<>>
              /\ \A i \in DOMAIN pots_baseline[h] :
                    \E g \in Range(GROUPS) : In(pots_baseline[h][i], groups[g])
        /\ \A h \in (k + 1)..4 :
              /\ Len(pots[h]) = Len(pots_baseline[h])
              /\ \A i \in DOMAIN pots_baseline[h] : In(pots_baseline[h][i], pots[h])
              /\ h \notin PotsInGroups

\* C10 witness: complete_draw has returned False on a failure of pot 3
C10_Witness == op = "complete_draw" /\ ret = "False" /\ error.pot = 3

\* a one-to-one assignment of the teams to different groups that hold
\* exactly `size` teams and may take the team: f[i] is the group of teams[i]
Assignments(groups_after, teams, size) ==
  {f \in [DOMAIN teams -> Range(GROUPS)] :
     /\ \A i, j \in DOMAIN teams : f[i] = f[j] => i = j
     /\ \A i \in DOMAIN teams :
           /\ Len(groups_after[f[i]]) = size
           /\ confed_ok_to_add(groups_after[f[i]], teams[i])}

Feasible(groups_after, teams, size) == Assignments(groups_after, teams, size) # {}

\* C11 (matcher soundness): a mapping perfect_matching returns holds every
\* supplied team exactly once and no group more than once, and every group
\* it maps holds exactly the stage's number of teams and may take its team
\* under the confederation limits.
C11_MatcherSoundness ==
  (matcher.called /\ matcher.out.ok) =>
    LET m  == matcher.out.map
        ga == matcher.groups_after
        q  == matcher.remaining_teams
    IN  /\ \A i \in DOMAIN q :
              Cardinality({j \in DOMAIN m : m[j][2] = q[i].name}) = 1
        /\ \A j \in DOMAIN m : \E i \in DOMAIN q : m[j][2] = q[i].name
        /\ \A j, h \in DOMAIN m : m[j][1] = m[h][1] => j = h
        /\ \A j \in DOMAIN m : \A i \in DOMAIN q :
              m[j][2] = q[i].name =>
                /\ Len(ga[m[j][1]]) = matcher.required_size
                /\ confed_ok_to_add(ga[m[j][1]], q[i])

\* a returned mapping of three teams, one of them a second UEFA team of its
\* group and the groups not all open to every team
C11_Witness ==
  /\ matcher.called /\ matcher.out.ok
  /\ Len(matcher.out.map) = 3
  /\ matcher.required_size = 2
  /\ \E j \in DOMAIN matcher.out.map :
        LET g == matcher.out.map[j][1]
        IN  /\ Count(matcher.groups_after[g], UEFA) = 1
            /\ \E t \in Range(matcher.remaining_teams) :
                  t.name = matcher.out.map[j][2] /\ t.confederation = UEFA
  /\ \E t \in Range(matcher.remaining_teams) :
        Len(candidate_groups(t, matcher.groups_after, 2)) < Len(GROUPS)

\* C12 (matcher completeness): perfect_matching returns None exactly when no
\* one-to-one assignment of the supplied teams to different candidate groups
\* exists.
C12_MatcherCompleteness ==
  matcher.called =>
    (matcher.out.ok <=> Feasible(matcher.groups_after, matcher.remaining_teams,
                                 matcher.required_size))

\* the team order the matcher works through
MatcherOrder ==
  OrderByOptions(Candidates(matcher.groups_after, matcher.remaining_teams,
                            matcher.required_size),
                 matcher.remaining_teams, 0)

\* a mapping in which a team the matcher took later holds the first candidate
\* group of a team it took earlier: the earlier team was moved
C12_Witness ==
  /\ matcher.called /\ matcher.out.ok
  /\ \E i, j \in DOMAIN MatcherOrder :
        /\ i < j
        /\ HasKey(matcher.out.map, Head(candidate_groups(MatcherOrder[i],
                     matcher.groups_after, matcher.required_size)))
        /\ Get(matcher.out.map, Head(candidate_groups(MatcherOrder[i],
                  matcher.groups_after, matcher.required_size)))
             = MatcherOrder[j].name

\* the groups as they stood before their pot-4 teams came
BeforePot4 == [g \in Range(GROUPS) |-> SelectSeq(groups[g], LAMBDA t : t.pot # 4)]

\* C13 (pot 4 completeness): when complete_draw reaches pot 4, it places
\* every remaining pot-4 team and returns True, whatever the shuffle, if some
\* assignment of these teams to different groups of exactly 3 teams within
\* the confederation limits exists; it fails with the pot-4 error, leaving
\* the groups alone, only if none exists.
C13_Pot4Completeness ==
  [][(/\ op' = "complete_draw"
      /\ pots[1] = <<>> /\ pots[2] = <<>> /\ pots[3] = <<>> /\ pots[4] # <<>>)
     => IF Feasible(groups, pots[4], 3)
          THEN ret' = "True" /\ pots'[4] = <<>> /\ error' = NoError
          ELSE ret' = "False" /\ error'.pot = 4 /\ groups' = groups]_vars

\* complete_draw has placed the whole of pot 4 (pot 3 never went through a
\* queue, so pot 4 was not started one team at a time), and the first team
\* of its shuffle is not in the first group that could take it
C13_Witness ==
  /\ op = "complete_draw" /\ ret = "True" /\ AllPotsEmpty
  /\ ~queue[3].has
  /\ Len(log) = Len(OriginalTeams)
  /\ LET first == log[Len(log) - Len(pots_baseline[4]) + 1]
     IN  /\ first.pot = 4
         /\ \E t \in Range(pots_baseline[4]) :
               /\ t.name = first.team
               /\ first.group # Head(Sorted(pot4_possibilities(BeforePot4, t)))

\* the queue a draw_next_team call on pot k pops from: the session's queue,
\* or the shuffle q of the pot when the session has none
PoppedQueue(k, q) == IF NeedsQueue(State, k) THEN q ELSE queue[k].items

\* the call draws, with the shuffle q, a pot-2 or pot-3 team that is not in
\* a group, has no candidate group, and the matcher over it and the rest of
\* its queue fails
NoSlotFor(k, q) ==
  /\ k \in {2, 3} /\ ActivePot(State) = k
  /\ LET team == Head(PoppedQueue(k, q))
     IN  /\ ~team_already_placed(groups, team)
         /\ candidate_groups(team, groups, k - 1) = <<>>
         /\ ~Feasible(groups, PoppedQueue(k, q), k - 1)

\* the step is the draw_next_team call that shuffles to q
DrawsWith(q) ==
  LET s == draw_next_team(State, q)
  IN  /\ op' = "draw_next_team"
      /\ pots' = s.pots /\ groups' = s.groups /\ log' = s.log
      /\ error' = s.error /\ queue' = s.queue /\ ret' = s.ret

\* C14 as claimed: such a call leaves pots and groups unchanged, leaves the
\* queue with the content it had before the call, appends one log entry and
\* does not set the error marker.
C14_TransientFailure ==
  [][\A k \in {2, 3} : \A q \in Shuffled(draw_to_shuffle(State)) :
       (DrawsWith(q) /\ NoSlotFor(k, q)) =>
         /\ pots' = pots /\ groups' = groups
         /\ queue'[k].items = queue[k].items
         /\ Len(log') = Len(log) + 1 /\ IsPrefix(log, log')
         /\ error' = error]_vars

\* C14 (transient failure in pots 2 and 3), amended: such a call leaves pots
\* and groups unchanged, leaves the queue as the call popped it (its content
\* before the call, or the shuffle of the pot the call built when there was
\* no queue), with the team at its front, appends one log entry about the
\* team and returns normally; in pot 2 it leaves the error marker as it was,
\* in pot 3 it sets the error marker to the pot-3 failure of the team.
C14_TransientFailureAmended ==
  [][\A k \in {2, 3} : \A q \in Shuffled(draw_to_shuffle(State)) :
       (DrawsWith(q) /\ NoSlotFor(k, q)) =>
         LET team == Head(PoppedQueue(k, q))
         IN  /\ pots' = pots /\ groups' = groups
             /\ queue'[k].items = PoppedQueue(k, q)
             /\ \A j \in 1..4 : j # k => queue'[j] = queue[j]
             /\ Len(log') = Len(log) + 1 /\ IsPrefix(log, log')
             /\ log'[Len(log')].team = team.name
             /\ log'[Len(log')].kind # "to Group"
             /\ ret' # "raised"
             /\ k = 2 => error' = error
             /\ k = 3 => error' = ErrorMsg(3, "cannot place", team.name)]_vars

\* a pot-3 team was drawn, found no slot and is back at the front of its queue
C14_Witness ==
  /\ op = "draw_next_team" /\ log # <<>>
  /\ log[Len(log)].kind = "failed to place"
  /\ error = ErrorMsg(3, "cannot place", log[Len(log)].team)
  /\ queue[3].items # <<>>
  /\ Head(queue[3].items).name = log[Len(log)].team
  /\ In(Head(queue[3].items), pots[3])
  /\ ~team_already_placed(groups, Head(queue[3].items))

\* C15 (draw_next_team never throws): in every state a session reaches by
\* draw_next_team, complete_draw and reset calls, a draw_next_team call
\* returns normally and leaves every team placed before it where it was.
C15_NeverThrows ==
  [][op' = "draw_next_team" =>
       /\ ret' # "raised"
       /\ \A g \in Range(GROUPS) : IsPrefix(groups[g], groups'[g])]_vars

\* the names of the designated hosts
HostNames == {HOSTS_POT1[i][1] : i \in DOMAIN HOSTS_POT1}

\* the number of pot-1 teams in group g
Pot1TeamsIn(g) == Cardinality({i \in DOMAIN groups[g] : groups[g][i].pot = 1})

\* C16 (host placement result): once pot 1 is empty, however it was drawn,
\* Mexico is in group A, United States in group B, Canada in group D, and
\* every group holds exactly one pot-1 team.
C16_HostPlacement ==
  pots[1] = <<>> =>
    /\ \A i \in DOMAIN HOSTS_POT1 :
          \E j \in DOMAIN groups[HOSTS_POT1[i][2]] :
             groups[HOSTS_POT1[i][2]][j].name = HOSTS_POT1[i][1]
    /\ \A g \in Range(GROUPS) : Pot1TeamsIn(g) = 1

\* pot 1 has just been emptied by a draw_next_team call that placed the top
\* seed that is not a host
C16_Witness ==
  /\ pots[1] = <<>> /\ op = "draw_next_team"
  /\ Len(log) = Len(pots_baseline[1])
  /\ log[Len(log)].pot = 1 /\ log[Len(log)].team \notin HostNames

\* the position in the log of the placement of host i in its group (0: none)
HostLine(i) ==
  LET at == {j \in DOMAIN log : log[j] = LogLine("to Group", 1, HOSTS_POT1[i][1],
                                                 HOSTS_POT1[i][2])}
  IN  IF at = {} THEN 0 ELSE CHOOSE j \in at : \A h \in at : j <= h

\* C17 (host ordering): a pot-1 team that is not a host is placed only after
\* every host has left pot 1; a host is placed in its designated group only
\* when that group is empty, so it is the group's first team; and the hosts
\* are placed in the order Mexico, United States, Canada.
C17_HostOrdering ==
  /\ \A j \in DOMAIN log :
        (log[j].kind = "to Group" /\ log[j].pot = 1 /\ log[j].team \notin HostNames)
          => \A i \in DOMAIN HOSTS_POT1 : HostLine(i) # 0 /\ HostLine(i) < j
  /\ (\E g \in Range(GROUPS) : \E j \in DOMAIN groups[g] :
         groups[g][j].pot = 1 /\ groups[g][j].name \notin HostNames)
       => \A j \in DOMAIN pots[1] : pots[1][j].name \notin HostNames
  /\ \A i \in DOMAIN HOSTS_POT1 :
        /\ HostLine(i) # 0 =>
              /\ groups[HOSTS_POT1[i][2]] # <<>>
              /\ groups[HOSTS_POT1[i][2]][1].name = HOSTS_POT1[i][1]
        /\ \A g \in Range(GROUPS) : \A j \in DOMAIN groups[g] :
              groups[g][j].name = HOSTS_POT1[i][1] => g = HOSTS_POT1[i][2] /\ j = 1
  /\ \A i, h \in DOMAIN HOSTS_POT1 :
        (i < h /\ HostLine(h) # 0) => (HostLine(i) # 0 /\ HostLine(i) < HostLine(h))

\* complete_draw has emptied pot 1 (no pot-1 queue was ever built, so the
\* last top seed was placed by pot1): the log starts with the three hosts in
\* their order, then the top seed that is not a host
C17_Witness ==
  /\ op = "complete_draw" /\ pots[1] = <<>>
  /\ queue[1] = NoQueue
  /\ HostLine(1) = 1 /\ HostLine(2) = 2 /\ HostLine(3) = 3
  /\ log[4].pot = 1 /\ log[4].team \notin HostNames

WellFormed(pot_inputs) ==
  \A k \in 1..4 :
     Cardinality({i \in DOMAIN pot_inputs[k] : Len(pot_inputs[k][i]) >= 2}) = PotSize

\* C19 (validation): "Reset with these pots", pressed on pots of which one
\* does not hold exactly the required number of teams (a line without its
\* confederation gives no team), leaves pots, groups, log and baseline pots,
\* and the rest of the session, as they were.
C19_Validation ==
  [][\A pot_inputs \in PastedTexts :
       (~WellFormed(pot_inputs) /\ resets' = resets + 1 /\ ResetWith(pot_inputs)) =>
         /\ pots' = pots /\ groups' = groups /\ log' = log
         /\ pots_baseline' = pots_baseline
         /\ error' = error /\ queue' = queue]_vars

\* a reset was rejected in a session with teams in the groups and in the pots
C19_Witness ==
  /\ op = "rejected"
  /\ log # <<>> /\ ~AllPotsEmpty
  /\ \E g \in Range(GROUPS) : groups[g] # <<>>

\* C20 (global repair in pots 2 and 3): when complete_draw starts pot 2
\* (pot 3) and a one-to-one assignment of all the pot's remaining teams to
\* groups of exactly 1 (2) teams within the confederation limits exists, the
\* strategy places every team of the pot, whatever the shuffle, and does not
\* report the failure of the pot.
C20_GlobalRepair ==
  [][\A k \in {2, 3} :
       (/\ op' = "complete_draw"
        /\ \A j \in 1..(k - 1) : pots[j] = <<>>
        /\ pots[k] # <<>>
        /\ Feasible(groups, pots[k], k - 1))
       => (pots'[k] = <<>> /\ error'.pot # k)]_vars

\* the pot-4 teams in the groups
Pot4Placed ==
  {t \in Range(pots_baseline[4]) : \E g \in Range(GROUPS) : In(t, groups[g])}

\* C21 (pot-4 look-ahead): in a session driven by draw_next_team only, once
\* a pot-4 team is in a group the pot-4 teams still in the pot admit a
\* one-to-one assignment to groups of exactly 3 teams within the
\* confederation limits, and the pot-4 error marker is not set.
C21_Pot4LookAhead ==
  Pot4Placed # {} => (Feasible(groups, pots[4], 3) /\ error.pot # 4)

\* one pot-4 team has been placed, three are left, and the team is not in the
\* first group that could take it: the look-ahead has turned that group down
C21_Witness ==
  /\ op = "draw_next_team" /\ error = NoError
  /\ Cardinality(Pot4Placed) = 1 /\ Len(pots[4]) = Len(pots_baseline[4]) - 1
  /\ \E t \in Pot4Placed :
        ~In(t, groups[Head(Sorted(pot4_possibilities(BeforePot4, t)))])

\* the draw_next_team call that shuffles to q draws a pot-4 team of the pot
\* for which neither the one-step-ahead path (over the pot) nor the
\* backtracking fallback (over the team and the rest of its queue) has an
\* assignment to find
NoPot4Assignment(q) ==
  /\ ActivePot(State) = 4
  /\ LET team == Head(PoppedQueue(4, q))
     IN  /\ ~team_already_placed(groups, team)
         /\ In(team, pots[4])
         /\ ~Feasible(groups, pots[4], 3)
         /\ ~Feasible(groups, PoppedQueue(4, q), 3)

\* C22 (pot-4 failure commits nothing): when pot4, run by complete_draw, or
\* the pot-4 branch of draw_next_team has no feasible assignment to find,
\* the call sets the pot-4 error marker and leaves groups and pots exactly as
\* they were; draw_next_team leaves its team at the front of the pot-4 queue.
C22_Pot4FailureCommitsNothing ==
  [][/\ (/\ op' = "complete_draw"
          /\ pots[1] = <<>> /\ pots[2] = <<>> /\ pots[3] = <<>> /\ pots[4] # <<>>
          /\ ~Feasible(groups, pots[4], 3))
         => (error'.pot = 4 /\ ret' = "False" /\ groups' = groups /\ pots' = pots)
     /\ (op' = "draw_next_team" /\ ActivePot(State) = 4)
         => \A q \in Shuffled(draw_to_shuffle(State)) :
              (NoPot4Assignment(q) /\ DrawsWith(q)) =>
                /\ error'.pot = 4 /\ error'.team = Head(PoppedQueue(4, q)).name
                /\ groups' = groups /\ pots' = pots
                /\ queue'[4].items = PoppedQueue(4, q)]_vars

\* draw_next_team has failed on pot 4: its team heads the queue, is in the
\* pot, and no pot-4 team is in a group
C22_Witness ==
  /\ op = "draw_next_team" /\ error.pot = 4
  /\ queue[4].items # <<>>
  /\ Head(queue[4].items).name = error.team
  /\ In(Head(queue[4].items), pots[4])
  /\ Len(pots[4]) = Len(pots_baseline[4])
  /\ Pot4Placed = {}

\* the group that holds the team of this name ("": none)
GroupOf(grps, name) ==
  LET at == {g \in Range(GROUPS) : \E j \in DOMAIN grps[g] : grps[g][j].name = name}
  IN  IF at = {} THEN "" ELSE CHOOSE g \in at : TRUE

NewLines == SubSeq(log', Len(log) + 1, Len(log'))

\* the team of this name in the groups after the step
TeamNamed(name) ==
  CHOOSE t \in UNION {Range(groups'[g]) : g \in Range(GROUPS)} : t.name = name

\* the groups as they stood within the step when it wrote its i-th new log
\* line: the groups before the step and the teams its earlier lines placed
GroupsBefore(i) ==
  [g \in Range(GROUPS) |->
     LET mine == SelectSeq(SubSeq(NewLines, 1, i - 1),
                           LAMBDA l : /\ l.kind = "to Group" /\ l.group = g
                                      /\ \A t \in Range(groups[g]) : t.name # l.team)
     IN  groups[g] \o [j \in DOMAIN mine |-> TeamNamed(mine[j].team)]]

\* g is the alphabetically first group of grps that holds exactly size teams
\* and that team may join
FirstFit(grps, team, size, g) ==
  /\ Len(grps[g]) = size
  /\ confed_ok_to_add(grps[g], team)
  /\ \A h \in Range(GROUPS) :
        GroupIndex(h) < GroupIndex(g) =>
          ~(Len(grps[h]) = size /\ confed_ok_to_add(grps[h], team))

\* g is the alphabetically first empty group of grps
FirstEmpty(grps, g) ==
  /\ grps[g] = <<>>
  /\ \A h \in Range(GROUPS) : GroupIndex(h) < GroupIndex(g) => grps[h] # <<>>

\* C24 (greedy choice): every pot-2 (pot-3) team that a draw_next_team or
\* complete_draw call places goes to the alphabetically first group that, at
\* that point of the call, holds exactly 1 (2) teams and passes
\* confed_ok_to_add for it, and every pot-1 team that is not a host goes to
\* the alphabetically first empty group; so does the team that a call puts
\* in a group before its list.remove raises.
C24_GreedyChoice ==
  [][ op' \in {"draw_next_team", "complete_draw"} =>
        /\ \A i \in DOMAIN NewLines :
              LET l == NewLines[i]
              IN  /\ (l.kind = "to Group" /\ l.pot \in {2, 3}) =>
                        FirstFit(GroupsBefore(i), TeamNamed(l.team), l.pot - 1, l.group)
                  /\ (l.kind = "to Group" /\ l.pot = 1 /\ l.team \notin HostNames) =>
                        FirstEmpty(GroupsBefore(i), l.group)
        /\ ret' = "raised" =>
              \A g \in Range(GROUPS) :
                 groups'[g] # groups[g] =>
                   LET t == groups'[g][Len(groups'[g])]
                   IN  /\ t.pot \in {2, 3} => FirstFit(groups, t, t.pot - 1, g)
                       /\ t.pot = 1 => FirstEmpty(groups, g)
    ]_vars

\* the last line of the log places a pot-2 team, and an earlier group still
\* holds one team only: it held exactly one team when the team was placed
\* and was passed over for its confederation
C24_Witness ==
  /\ log # <<>>
  /\ LET l == log[Len(log)]
     IN  /\ l.kind = "to Group" /\ l.pot = 2
         /\ Len(groups[l.group]) = 2
         /\ \E h \in Range(GROUPS) :
               GroupIndex(h) < GroupIndex(l.group) /\ Len(groups[h]) = 1

\* the number of teams of group g that come from pot k
FromPot(g, k) == Cardinality({i \in DOMAIN groups[g] : groups[g][i].pot = k})

\* C25 (even distribution): in every state reached by draw_next_team and
\* complete_draw calls from full pots, every group holds at most one team
\* from each pot; while pot k is the first pot that is not empty, every
\* group holds k-1 or k teams; and the sizes of two groups never differ by
\* more than 1.
C25_EvenDistribution ==
  /\ \A g \in Range(GROUPS) : \A k \in 1..4 : FromPot(g, k) <= 1
  /\ \A k \in 1..4 :
        (pots[k] # <<>> /\ \A h \in 1..(k - 1) : pots[h] = <<>>) =>
          \A g \in Range(GROUPS) : Len(groups[g]) \in {k - 1, k}
  /\ \A g, h \in Range(GROUPS) : Len(groups[g]) - Len(groups[h]) <= 1

\* part-way through pot 3, after a draw_next_team call: a group with three
\* teams stands next to a later group with two, and a pot-3 team is still
\* to be drawn
C25_Witness ==
  /\ op = "draw_next_team"
  /\ pots[1] = <<>> /\ pots[2] = <<>> /\ pots[3] # <<>>
  /\ \E g, h \in Range(GROUPS) :
        /\ Len(groups[g]) = 3 /\ FromPot(g, 3) = 1
        /\ Len(groups[h]) = 2 /\ GroupIndex(g) > GroupIndex(h)

\* C26 (queue consistency): in every state reached by draw_next_team,
\* complete_draw and reset calls, every pending-draw queue that exists holds,
\* for its pot k, only teams that are still in pot k and in no group, each
\* at most once.
C26_QueueConsistency ==
  \A k \in 1..4 :
     queue[k].has =>
       /\ \A i \in DOMAIN queue[k].items :
             /\ In(queue[k].items[i], pots[k])
             /\ ~team_already_placed(groups, queue[k].items[i])
       /\ \A i, j \in DOMAIN queue[k].items :
             queue[k].items[i] = queue[k].items[j] => i = j

====
